---------------------------- MODULE Spec2Model ----------------------------
(***************************************************************************)
(* go-lenia: the Lenia engine (utils/computation.go), the slider           *)
(* parameters (utils/parameters.go) and the driver (simulation.go:         *)
(* the animate goroutine, the start/stop and restart buttons, the raster   *)
(* readers).                                                               *)
(*                                                                         *)
(* float64 values are modelled as exact rationals n/d together with the    *)
(* three IEEE-754 specials NaN, +Inf, -Inf; the arithmetic below follows   *)
(* the IEEE rules for the specials (1/0 = +Inf, 0*Inf = NaN, Inf-Inf =     *)
(* NaN, every comparison with NaN is false) and is exact on finite values. *)
(* math.Sqrt and math.Exp are rounded onto finite sets of rationals (see   *)
(* Sqrt and Exp).                                                          *)
(***************************************************************************)
EXTENDS Integers, Sequences, FiniteSets, TLC

VARIABLES
    A, Kernel, KFFT,            \* Config: matrices
    R, T, Mu, Sigma, Dx, Dt,    \* Config: parameters
    Beta,                       \* Config: ring weights
    running, wg,                \* simulation.go globals
    pcA, G, Acopy,              \* animate goroutine: position, Update's locals
    pcU, wasRunning,            \* UI goroutine: position, restart's local
    snap,                       \* the configuration as it was when restart was tapped
    pix,                        \* the last raster read (displayState / displayKernel)
    nUpdates, nTaps,            \* counters that bound a run
    op, U1, U2                  \* pure-function specifications: step and results

vars == <<A, Kernel, KFFT, R, T, Mu, Sigma, Dx, Dt, Beta, running, wg,
          pcA, G, Acopy, pcU, wasRunning, snap, pix, nUpdates, nTaps,
          op, U1, U2>>

-----------------------------------------------------------------------------
(* float64 *)

Abs(x) == IF x < 0 THEN -x ELSE x

RECURSIVE GCD(_, _)
GCD(a, b) == IF b = 0 THEN a ELSE GCD(b, a % b)

\* the finite float n/d (d > 0), in lowest terms
Fin(n, d) ==
    LET g == GCD(Abs(n), d) IN [c |-> "fin", n |-> n \div g, d |-> d \div g]

NaN == [c |-> "nan",  n |-> 0, d |-> 1]
PInf == [c |-> "pinf", n |-> 0, d |-> 1]
NInf == [c |-> "ninf", n |-> 0, d |-> 1]
Zero == Fin(0, 1)
One == Fin(1, 1)

IsFinite(x) == x.c = "fin"
IsNaN(x) == x.c = "nan"

Sign(x) ==
    CASE x.c = "pinf" -> 1
      [] x.c = "ninf" -> -1
      [] x.c = "nan"  -> 0
      [] OTHER -> IF x.n > 0 THEN 1 ELSE IF x.n < 0 THEN -1 ELSE 0

Inf(s) == IF s > 0 THEN PInf ELSE NInf

FNeg(x) ==
    CASE x.c = "fin"  -> Fin(-x.n, x.d)
      [] x.c = "pinf" -> NInf
      [] x.c = "ninf" -> PInf
      [] OTHER -> NaN

FAdd(x, y) ==
    IF IsNaN(x) \/ IsNaN(y) THEN NaN
    ELSE IF IsFinite(x) /\ IsFinite(y) THEN Fin(x.n * y.d + y.n * x.d, x.d * y.d)
    ELSE IF IsFinite(x) THEN y
    ELSE IF IsFinite(y) THEN x
    ELSE IF x.c = y.c THEN x ELSE NaN

FSub(x, y) == FAdd(x, FNeg(y))

FMul(x, y) ==
    IF IsNaN(x) \/ IsNaN(y) THEN NaN
    ELSE IF IsFinite(x) /\ IsFinite(y) THEN Fin(x.n * y.n, x.d * y.d)
    ELSE IF Sign(x) * Sign(y) = 0 THEN NaN
    ELSE Inf(Sign(x) * Sign(y))

\* x / y; a zero divisor is +0 (the program never produces -0 as a divisor)
FDiv(x, y) ==
    IF IsNaN(x) \/ IsNaN(y) THEN NaN
    ELSE IF IsFinite(y) THEN
        IF y.n = 0 THEN (IF Sign(x) = 0 THEN NaN ELSE Inf(Sign(x)))
        ELSE IF IsFinite(x) THEN Fin(x.n * y.d * Sign(y), x.d * Abs(y.n))
        ELSE Inf(Sign(x) * Sign(y))
    ELSE IF IsFinite(x) THEN Zero ELSE NaN

\* x < y; false when either is NaN
FLt(x, y) ==
    IF IsNaN(x) \/ IsNaN(y) THEN FALSE
    ELSE IF IsFinite(x) /\ IsFinite(y) THEN x.n * y.d < y.n * x.d
    ELSE IF x.c = y.c THEN FALSE
    ELSE x.c = "ninf" \/ y.c = "pinf"

\* x >= y; false when either is NaN
FGe(x, y) == ~IsNaN(x) /\ ~IsNaN(y) /\ ~FLt(x, y)

\* int(math.Floor(v)) and math.Mod(v, 1) for a finite v >= 0
FloorInt(v) == v.n \div v.d
Mod1(v) == Fin(v.n % v.d, v.d)

RECURSIVE Pow2(_)
Pow2(k) == IF k = 0 THEN 1 ELSE 2 * Pow2(k - 1)

\* math.Sqrt of a natural number, rounded down to a multiple of 1/SqrtDen
\* (exact on perfect squares)
SqrtDen == 10
Sqrt(n) ==
    LET s == CHOOSE s \in 0..(SqrtDen * n + 1) :
                 s * s <= n * SqrtDen * SqrtDen /\ (s + 1) * (s + 1) > n * SqrtDen * SqrtDen
    IN Fin(s, SqrtDen)

\* math.Exp(x) for x <= 0: exp(-Inf) = 0; a finite x is rounded onto the powers
\* of two 2^-k, k = floor(-x / ln 2) with ln 2 = 693/1000, k at most ExpBits
\* (the result of a finite x is never 0, as in float64 for x > -745)
ExpBits == 2
Exp(x) ==
    CASE x.c = "nan"  -> NaN
      [] x.c = "ninf" -> Zero
      [] x.c = "pinf" -> PInf
      [] OTHER ->
            LET k == ((-x.n) * 1000) \div (x.d * 693)
            IN Fin(1, Pow2(IF k > ExpBits THEN ExpBits ELSE IF k < 0 THEN 0 ELSE k))

(* src/utils/computation.go: Clip *)
Clip(n, min, max) ==
    IF FLt(n, min) THEN min
    ELSE IF FLt(max, n) THEN max
    ELSE n

\* Go's a % b: the remainder of the division truncated toward zero
GoRem(a, b) == IF a >= 0 THEN a % b ELSE -((-a) % b)

(* src/utils/computation.go: mod, the positive modulo *)
mod(a, b) == GoRem(GoRem(a, b) + b, b)

-----------------------------------------------------------------------------
(* mat.Dense and mat.CDense: rows, cols and the entries at <<i, j>> *)

Cells(r, c) == (0..(r - 1)) \X (0..(c - 1))

\* the r x c matrix with the entries f. The entries are tabulated (f @@ f is the
\* function f as a table of its values): TLC then computes each of them once,
\* when the matrix is made, and not again at every read.
Mat(r, c, f) == [rows |-> r, cols |-> c, at |-> f @@ f]

\* mat.NewDense(r, c, nil) and mat.NewCDense(r, c, nil): all zeros
NewDense(r, c) == Mat(r, c, [p \in Cells(r, c) |-> Zero])
CZero == [re |-> Zero, im |-> Zero]
CNaN == [re |-> NaN, im |-> NaN]
NewCDense(r, c) == Mat(r, c, [p \in Cells(r, c) |-> CZero])

InBounds(m, i, j) == i >= 0 /\ i < m.rows /\ j >= 0 /\ j < m.cols

\* m.Apply(f, m) is Mat(m.rows, m.cols, [p \in DOMAIN m.at |-> f(m.at[p])])

\* m.Scale(f, m)
Scale(f, m) == Mat(m.rows, m.cols, [p \in DOMAIN m.at |-> FMul(f, m.at[p])])

\* floats.Sum(m.RawMatrix().Data): the row-major data added left to right
RECURSIVE SumFrom(_, _)
SumFrom(m, k) ==
    IF k = m.rows * m.cols THEN Zero
    ELSE FAdd(m.at[<<k \div m.cols, k % m.cols>>], SumFrom(m, k + 1))
Sum(m) == IF m.rows * m.cols = 0 THEN Zero ELSE SumFrom(m, 0)

AllFinite(m) == \A p \in DOMAIN m.at : IsFinite(m.at[p])
CAllFinite(m) == \A p \in DOMAIN m.at : IsFinite(m.at[p].re) /\ IsFinite(m.at[p].im)

-----------------------------------------------------------------------------
(* src/utils/computation.go: the spectral transform *)

CAdd(z1, z2) == [re |-> FAdd(z1.re, z2.re), im |-> FAdd(z1.im, z2.im)]

\* z * (-i)^q: the twiddle factors of a transform whose sides divide 4 are the
\* powers of -i, so the transform is exact
Rot(z, q) ==
    CASE q % 4 = 0 -> z
      [] q % 4 = 1 -> [re |-> z.im, im |-> FNeg(z.re)]
      [] q % 4 = 2 -> [re |-> FNeg(z.re), im |-> FNeg(z.im)]
      [] OTHER     -> [re |-> FNeg(z.im), im |-> z.re]

\* the sum over every cell <<a, b>> of m of m[a, b] * (-i)^(sgn * (k*a*4/rows + l*b*4/cols))
RECURSIVE DFTSum(_, _, _, _, _)
DFTSum(m, k, l, sgn, n) ==
    IF n = m.rows * m.cols THEN CZero
    ELSE LET a == n \div m.cols
             b == n % m.cols
             q == (k * a * (4 \div m.rows) + l * b * (4 \div m.cols)) % 4
         IN CAdd(Rot(m.at[<<a, b>>], IF sgn > 0 THEN q ELSE (4 - q) % 4),
                 DFTSum(m, k, l, sgn, n + 1))

\* fft.FFT2Real / fft.IFFT2 (go-dsp) on a matrix whose sides divide 4. A NaN or
\* an infinity in the input makes every sum NaN.
DFT2(m, sgn) ==
    IF CAllFinite(m)
    THEN Mat(m.rows, m.cols, [p \in DOMAIN m.at |-> DFTSum(m, p[1], p[2], sgn, 0)])
    ELSE Mat(m.rows, m.cols, [p \in DOMAIN m.at |-> CNaN])

(* FFT: the forward transform of a real matrix *)
FFT(m) ==
    DFT2(Mat(m.rows, m.cols, [p \in DOMAIN m.at |-> [re |-> m.at[p], im |-> Zero]]), 1)

(* IFFT: the inverse transform, scaled by 1/(rows*cols) *)
IFFT(m) ==
    LET s == DFT2(m, -1)
        f == Fin(1, m.rows * m.cols)
    IN Mat(m.rows, m.cols, [p \in DOMAIN s.at |->
                               [re |-> FMul(f, s.at[p].re), im |-> FMul(f, s.at[p].im)]])

\* the largest of a non-empty finite set of integers
Max(S) == CHOOSE x \in S : \A y \in S : y <= x

\* shifted.Set panics when mod(i, c) is no row of the r x c matrix
FFTShiftPanics(m, r, c) ==
    LET RR == (m.rows - 1) \div 2
    IN \E i \in (-RR)..RR : mod(i, c) >= r

(* FFTShift: for i, j from -R to R in turn, shifted.Set(mod(i, c), mod(j, c),
   m.At(i+R, j+R)); rows are indexed with mod(i, c), as the columns are. A cell
   keeps the value of the last (i, j) that is written to it. *)
FFTShift(m, r, c) ==
    LET RR == (m.rows - 1) \div 2
        is(p) == {i \in (-RR)..RR : mod(i, c) = p}
    IN Mat(r, c, [p \in Cells(r, c) |->
                     IF is(p[1]) = {} \/ is(p[2]) = {} THEN Zero
                     ELSE m.at[<<Max(is(p[1])) + RR, Max(is(p[2])) + RR>>]])

(* RealPart *)
RealPart(m) == Mat(m.rows, m.cols, [p \in DOMAIN m.at |-> m.at[p].re])

\* complex((x1*x2 - y1*y2), (x1*y2 + x2*y1))
CMul(z1, z2) ==
    [re |-> FSub(FMul(z1.re, z2.re), FMul(z1.im, z2.im)),
     im |-> FAdd(FMul(z1.re, z2.im), FMul(z2.re, z1.im))]

\* m1.At(i, j) or m2.At(i, j) panics for some i < r, j < r
ComplexMulElemPanics(m1, m2) ==
    \E i \in 0..(m1.rows - 1), j \in 0..(m1.rows - 1) :
        ~InBounds(m1, i, j) \/ ~InBounds(m2, i, j)

(* ComplexMulElem: both loops run to r, the number of rows *)
ComplexMulElem(m1, m2) ==
    Mat(m1.rows, m1.cols,
        [p \in Cells(m1.rows, m1.cols) |->
            IF p[2] < m1.rows THEN CMul(m1.at[p], m2.at[p]) ELSE CZero])

-----------------------------------------------------------------------------
(* src/utils/computation.go: the kernel *)

(* getRadiusMatrix *)
getRadiusMatrix(RR) ==
    Mat(2 * RR + 1, 2 * RR + 1,
        [p \in Cells(2 * RR + 1, 2 * RR + 1) |->
            Sqrt((p[1] - RR) * (p[1] - RR) + (p[2] - RR) * (p[2] - RR))])

(* KernelCoreExp: math.Exp(a - a/(4*r*(1-r))), a = 4 *)
CoreA == 4
KernelCoreExp(r) ==
    LET a == Fin(CoreA, 1)
    IN Exp(FSub(a, FDiv(a, FMul(FMul(Fin(4, 1), r), FSub(One, r)))))

\* the function ComputeKernel applies to every scaled distance v (v is finite
\* and >= 0 whenever R > 0 is finite, which is all it is applied to here)
KernelShell(beta, v) ==
    IF FGe(v, Fin(Len(beta), 1)) THEN Zero
    ELSE IF ~IsFinite(v) THEN NaN
    ELSE FMul(beta[FloorInt(v) + 1], KernelCoreExp(Mod1(v)))

\* the normalised kernel K of ComputeKernel
NormalisedKernel(r, dx, beta) ==
    LET K0 == getRadiusMatrix(FloorInt(r))
        lenBetaDx == FMul(Fin(Len(beta), 1), dx)
        K1 == Scale(lenBetaDx, K0)
        K2 == Mat(K1.rows, K1.cols, [p \in DOMAIN K1.at |-> KernelShell(beta, K1.at[p])])
        sumK == FDiv(One, Sum(K2))
    IN Scale(sumK, K2)

(* ComputeKernel: the Kernel and KFFT it installs for a rows x cols grid *)
ComputeKernel(r, dx, beta, rows, cols) ==
    LET K == NormalisedKernel(r, dx, beta)
    IN [Kernel |-> K, KFFT |-> FFT(FFTShift(K, rows, cols))]

-----------------------------------------------------------------------------
(* src/utils/computation.go: the step *)

(* GrowthMapping: 2*exp(-(v-Mu)^2/s) - 1 with s = 2*Sigma^2, at every cell *)
Growth(v, mu, sigma) ==
    LET s == FMul(Fin(2, 1), FMul(sigma, sigma))
        d == FSub(v, mu)
    IN FSub(FMul(Fin(2, 1), Exp(FDiv(FMul(Fin(-1, 1), FMul(d, d)), s))), One)

GrowthMapping(U, mu, sigma) ==
    Mat(U.rows, U.cols, [p \in DOMAIN U.at |-> Growth(U.at[p], mu, sigma)])

\* the FFT approach of Update: U = RealPart(IFFT(ComplexMulElem(c.KFFT, FFT(c.A))))
Potential(a, kfft) == RealPart(IFFT(ComplexMulElem(kfft, FFT(a))))

\* G.Scale(c.Dt, G) of the growth of the potential
ScaledGrowth(a, kfft, mu, sigma, dt) ==
    Scale(dt, GrowthMapping(Potential(a, kfft), mu, sigma))

\* A.Add(A, G)
Add(a, g) == Mat(a.rows, a.cols, [p \in DOMAIN a.at |-> FAdd(a.at[p], g.at[p])])

\* A.Apply(Clip(v, 0, 1))
ClipAll(a) == Mat(a.rows, a.cols, [p \in DOMAIN a.at |-> Clip(a.at[p], Zero, One)])

(* padMatrix: the copy loop runs j to h, the number of rows *)
padMatrix(m, padding) ==
    Mat(m.rows + 2 * padding, m.cols + 2 * padding,
        [p \in Cells(m.rows + 2 * padding, m.cols + 2 * padding) |->
            IF /\ p[1] >= padding /\ p[1] < m.rows + padding
               /\ p[2] >= padding /\ p[2] < m.rows + padding
            THEN m.at[<<p[1] - padding, p[2] - padding>>]
            ELSE Zero])

\* m.At(i, j) panics in padMatrix for some j < h when the matrix has fewer columns
padMatrixPanics(m) == m.rows > m.cols

(* convolve: at every cell the sum of the neighbourhood of the zero-padded
   matrix multiplied element-wise by the kernel *)
convolve(m, kernel) ==
    LET p == (kernel.rows - 1) \div 2
        ref == padMatrix(m, p)
        subm(i, j) == Mat(kernel.rows, kernel.cols,
                          [q \in DOMAIN kernel.at |->
                              FMul(ref.at[<<i + q[1], j + q[2]>>], kernel.at[q])])
    IN Mat(m.rows, m.cols, [c \in Cells(m.rows, m.cols) |-> Sum(subm(c[1], c[2]))])

-----------------------------------------------------------------------------
(* src/utils/computation.go: the initial state *)

(* randInt(min, max): r0.Intn(max-min) + min, one of min .. max-1;
   Intn panics when max <= min *)
randInt(min, max) == min..(max - 1)
randIntPanics(min, max) == max <= min

\* r0.Float64(): a value of [0, 1)
FloatDraws == {Fin(1, 2)}

\* InitState's constants, scaled with the grid (the program's grid is 512 x 512
\* with rectangles of half-width 20..49, w/50 .. w/30 - 1 of them; the model's
\* is 4 x 4 with rectangles of half-width 1, one of them)
PatchMin == 1
PatchMax == 2
CountDivMin == 4
CountDivMax == 2

\* the matrix a with the rectangle of half-widths w1, w2 centred at (x, y)
\* filled with vals: c.A.Set(i, j, r0.Float64()) for x-w1 <= i < x+w1,
\* y-w2 <= j < y+w2
FillPatch(a, w1, w2, x, y, vals) ==
    Mat(a.rows, a.cols,
        [p \in DOMAIN a.at |->
            IF /\ p[1] >= x - w1 /\ p[1] < x + w1
               /\ p[2] >= y - w2 /\ p[2] < y + w2
            THEN vals[p] ELSE a.at[p]])

PatchCells(w1, w2, x, y) == ((x - w1)..(x + w1 - 1)) \X ((y - w2)..(y + w2 - 1))

\* every matrix one more rectangle can make of a (a rectangle with a cell outside
\* the matrix makes none: c.A.Set panics, see InitStatePanics)
OnePatch(a) ==
    LET h == a.rows
        w == a.cols
    IN UNION { UNION { UNION { UNION {
         { FillPatch(a, w1, w2, x, y, vals) :
             vals \in [PatchCells(w1, w2, x, y) -> FloatDraws] } :
         y \in {y0 \in randInt(w2, h - w2) : PatchCells(w1, w2, x, y0) \subseteq DOMAIN a.at} } :
         x \in randInt(w1, w - w1) } :
         w2 \in randInt(PatchMin, PatchMax) } :
         w1 \in randInt(PatchMin, PatchMax) }

RECURSIVE Patches(_, _)
Patches(S, n) == IF n = 0 THEN S ELSE Patches(UNION {OnePatch(a) : a \in S}, n - 1)

\* some outcome of InitState's draws panics: a draw over an empty range (Intn
\* panics when max <= min) or a c.A.Set(i, j, ..) outside the matrix. The count
\* is drawn at the first test of the loop; the body runs when a count above 0
\* can be drawn.
InitStatePanics(a) ==
    LET h == a.rows
        w == a.cols
        lo == w \div CountDivMin
        hi == w \div CountDivMax
    IN \/ randIntPanics(lo, hi)
       \/ /\ hi - 1 >= 1
          /\ \/ randIntPanics(PatchMin, PatchMax)
             \/ \E w1 \in randInt(PatchMin, PatchMax), w2 \in randInt(PatchMin, PatchMax) :
                   \/ randIntPanics(w1, w - w1)
                   \/ randIntPanics(w2, h - w2)
                   \/ \E x \in randInt(w1, w - w1), y \in randInt(w2, h - w2) :
                         ~(PatchCells(w1, w2, x, y) \subseteq DOMAIN a.at)

(* InitState: every matrix it can make of a. The loop runs while
   k < randInt(w/50, w/30), drawn again at every turn: at least w/50 and at most
   w/30 - 1 rectangles. *)
InitState(a) ==
    LET lo == a.cols \div CountDivMin
        hi == a.cols \div CountDivMax
    IN UNION {Patches({a}, n) : n \in lo..(hi - 1)}

-----------------------------------------------------------------------------
(* The program: src/simulation.go *)

\* const width, height: the grid's sides (512 in the program; 4 here, a side the
\* transform is exact on)
width == 4
height == 4

\* the flags -r, -t, -m, -s, -b main() passes to initParameters
RFlags == {Fin(1, 1), Fin(3, 2)}
TFlags == {Fin(1, 1)}
MuFlags == {Fin(1, 4)}
SigmaFlags == {Fin(1, 8)}
BetaFlags == {<<One>>}

\* the positions of the sliders leniaWindow builds: R and T from 0 by steps of
\* 1, Mu and Sigma from 0 to 1 by steps of 1/1000 (here of 1/SliderSteps)
MaxSlider == 1
SliderSteps == 1
RSlider == {Fin(k, 1) : k \in 0..MaxSlider}
TSlider == {Fin(k, 1) : k \in 0..MaxSlider}
MuSlider == {Fin(k, SliderSteps) : k \in 0..SliderSteps}
SigmaSlider == {Fin(k, SliderSteps) : k \in 0..SliderSteps}

\* a run is cut after MaxUpdates steps of the animation and MaxTaps taps
MaxUpdates == 2
MaxTaps == 2

\* the fields of setup other than the grid
Params == [Kernel |-> Kernel, KFFT |-> KFFT, R |-> R, T |-> T, Mu |-> Mu,
           Sigma |-> Sigma, Dx |-> Dx, Dt |-> Dt, Beta |-> Beta]

NoSnap == [set |-> FALSE]
NoPix == [read |-> FALSE]
NoMat == NewDense(0, 0)

\* Update is between its first read of c.A and its assignment to c.A
UpdateInFlight == pcA \in {"update", "copy", "clip", "publish"}

(* NewConfig(h, w, R, T, Mu, Sigma, Beta), then the globals of simulation.go *)
NewConfig(h, w, r, t, mu, sigma, beta) ==
    LET dx == FDiv(One, r)
        dt == FDiv(One, t)
        k == ComputeKernel(r, dx, beta, h, w)
    IN /\ R = r /\ T = t /\ Mu = mu /\ Sigma = sigma /\ Beta = beta
       /\ Dx = dx /\ Dt = dt
       /\ Kernel = k.Kernel /\ KFFT = k.KFFT
       /\ A \in InitState(NewDense(h, w))

Idle ==
    /\ G = NoMat /\ Acopy = NoMat /\ snap = NoSnap /\ pix = NoPix
    /\ nUpdates = 0 /\ nTaps = 0 /\ wasRunning = FALSE
    /\ U1 = NoMat /\ U2 = NoMat

(* main: initParameters with the flags, leniaWindow, go animate(raster) *)
Init ==
    /\ \E r \in RFlags, t \in TFlags, mu \in MuFlags, sigma \in SigmaFlags,
          beta \in BetaFlags :
          NewConfig(width, height, r, t, mu, sigma, beta)
    /\ running = TRUE /\ wg = 0
    /\ pcA = "tick" /\ pcU = "idle"
    /\ op = "run"
    /\ Idle

config == <<Kernel, KFFT, R, T, Mu, Sigma, Dx, Dt, Beta>>
animateVars == <<pcA, G, Acopy, nUpdates>>
uiVars == <<pcU, wasRunning, snap, nTaps>>
pureVars == <<op, U1, U2>>

(* animate: a tick with running true *)
AnimateTick ==
    /\ pcA = "tick" /\ running /\ nUpdates < MaxUpdates
    /\ pcA' = "add"
    /\ UNCHANGED <<A, config, running, wg, G, Acopy, nUpdates, uiVars, pix, pureVars>>

(* animate: wg.Add(1) *)
AnimateAdd ==
    /\ pcA = "add"
    /\ wg' = wg + 1
    /\ pcA' = "update"
    /\ UNCHANGED <<A, config, running, G, Acopy, nUpdates, uiVars, pix, pureVars>>

(* Update: the potential of c.A, its growth, scaled by c.Dt *)
UpdateGrowth ==
    /\ pcA = "update"
    /\ G' = ScaledGrowth(A, KFFT, Mu, Sigma, Dt)
    /\ pcA' = "copy"
    /\ UNCHANGED <<A, config, running, wg, Acopy, nUpdates, uiVars, pix, pureVars>>

\* Update adding G to c.A itself, in place of a copy of it
UpdateAddInPlace ==
    /\ pcA = "copy"
    /\ A' = Add(A, G)
    /\ Acopy' = Add(A, G)
    /\ pcA' = "clip"
    /\ UNCHANGED <<config, running, wg, G, nUpdates, uiVars, pix, pureVars>>

(* Update: A := mat.DenseCopyOf(c.A); A.Add(A, G) *)
UpdateAdd ==
    /\ pcA = "copy"
    /\ Acopy' = Add(A, G)
    /\ pcA' = "clip"
    /\ UNCHANGED <<A, config, running, wg, G, nUpdates, uiVars, pix, pureVars>>

(* Update: A.Apply(Clip(v, 0, 1)) *)
UpdateClip ==
    /\ pcA = "clip"
    /\ Acopy' = ClipAll(Acopy)
    /\ pcA' = "publish"
    /\ UNCHANGED <<A, config, running, wg, G, nUpdates, uiVars, pix, pureVars>>

(* Update: c.A = mat.DenseCopyOf(A); the locals G and A die with the call *)
UpdatePublish ==
    /\ pcA = "publish"
    /\ A' = Acopy
    /\ G' = NoMat /\ Acopy' = NoMat
    /\ pcA' = "done"
    /\ UNCHANGED <<config, running, wg, nUpdates, uiVars, pix, pureVars>>

\* animate without its wg.Done()
AnimateDoneLeak ==
    /\ pcA = "done"
    /\ nUpdates' = nUpdates + 1
    /\ pcA' = "tick"
    /\ UNCHANGED <<A, config, running, wg, G, Acopy, uiVars, pix, pureVars>>

\* animate calling wg.Done() only while running is true
AnimateDoneIfRunning ==
    /\ pcA = "done"
    /\ wg' = IF running THEN wg - 1 ELSE wg
    /\ nUpdates' = nUpdates + 1
    /\ pcA' = "tick"
    /\ UNCHANGED <<A, config, running, G, Acopy, uiVars, pix, pureVars>>

(* animate: raster.Refresh(); wg.Done() *)
AnimateDone ==
    /\ pcA = "done"
    /\ wg' = wg - 1
    /\ nUpdates' = nUpdates + 1
    /\ pcA' = "tick"
    /\ UNCHANGED <<A, config, running, G, Acopy, uiVars, pix, pureVars>>

animate ==
    \/ AnimateTick \/ AnimateAdd \/ UpdateGrowth \/ UpdateAdd \/ UpdateClip
    \/ UpdatePublish \/ AnimateDone

\* the UI goroutine takes a tap when it is in no callback
CanTap == pcU = "idle" /\ nTaps < MaxTaps

(* StartButton: running = !running *)
StartButton ==
    /\ CanTap
    /\ running' = ~running
    /\ nTaps' = nTaps + 1
    /\ UNCHANGED <<A, config, wg, animateVars, pcU, wasRunning, snap, pix, pureVars>>

(* Parameter.OnSliderChangeOther for R: p.Update(v); *otherVar = 1 / v *)
SliderR ==
    /\ CanTap
    /\ \E v \in RSlider : R' = v /\ Dx' = FDiv(One, v)
    /\ nTaps' = nTaps + 1
    /\ UNCHANGED <<A, Kernel, KFFT, T, Mu, Sigma, Dt, Beta, running, wg, animateVars,
                   pcU, wasRunning, snap, pix, pureVars>>

(* Parameter.OnSliderChangeOther for T: p.Update(v); *otherVar = 1 / v *)
SliderT ==
    /\ CanTap
    /\ \E v \in TSlider : T' = v /\ Dt' = FDiv(One, v)
    /\ nTaps' = nTaps + 1
    /\ UNCHANGED <<A, Kernel, KFFT, R, Mu, Sigma, Dx, Beta, running, wg, animateVars,
                   pcU, wasRunning, snap, pix, pureVars>>

(* Parameter.OnSliderChange for Mu: p.Update(v) *)
SliderMu ==
    /\ CanTap
    /\ \E v \in MuSlider : Mu' = v
    /\ nTaps' = nTaps + 1
    /\ UNCHANGED <<A, Kernel, KFFT, R, T, Sigma, Dx, Dt, Beta, running, wg, animateVars,
                   pcU, wasRunning, snap, pix, pureVars>>

(* Parameter.OnSliderChange for Sigma: p.Update(v) *)
SliderSigma ==
    /\ CanTap
    /\ \E v \in SigmaSlider : Sigma' = v
    /\ nTaps' = nTaps + 1
    /\ UNCHANGED <<A, Kernel, KFFT, R, T, Mu, Dx, Dt, Beta, running, wg, animateVars,
                   pcU, wasRunning, snap, pix, pureVars>>

(* RestartButton: wasRunning := running; running = false. snap keeps the
   configuration and the running flag as they are at the tap. *)
RestartStop ==
    /\ CanTap
    /\ wasRunning' = running
    /\ running' = FALSE
    /\ snap' = [set |-> TRUE, params |-> Params, running |-> running]
    /\ nTaps' = nTaps + 1
    /\ pcU' = "wait"
    /\ UNCHANGED <<A, config, wg, animateVars, pix, pureVars>>

(* RestartButton: wg.Wait() returns when the counter is 0 *)
RestartWait ==
    /\ pcU = "wait"
    /\ wg = 0
    /\ pcU' = "new"
    /\ UNCHANGED <<A, config, running, wg, animateVars, wasRunning, snap, nTaps, pix,
                   pureVars>>

\* a restart that builds the kernel again with the new grid
RestartNewKernel ==
    /\ pcU = "new"
    /\ A' = NewDense(width, height)
    /\ LET k == ComputeKernel(R, Dx, Beta, width, height)
       IN Kernel' = k.Kernel /\ KFFT' = k.KFFT
    /\ pcU' = "init"
    /\ UNCHANGED <<R, T, Mu, Sigma, Dx, Dt, Beta, running, wg, animateVars, wasRunning,
                   snap, nTaps, pix, pureVars>>

(* RestartButton: setup.A = mat.NewDense(width, height, nil) *)
RestartNew ==
    /\ pcU = "new"
    /\ A' = NewDense(width, height)
    /\ pcU' = "init"
    /\ UNCHANGED <<config, running, wg, animateVars, wasRunning, snap, nTaps, pix,
                   pureVars>>

(* RestartButton: setup.InitState(); raster.Refresh() *)
RestartInit ==
    /\ pcU = "init"
    /\ A' \in InitState(A)
    /\ pcU' = "resume"
    /\ UNCHANGED <<config, running, wg, animateVars, wasRunning, snap, nTaps, pix,
                   pureVars>>

\* a restart that always resumes the animation
RestartResumeRunning ==
    /\ pcU = "resume"
    /\ running' = TRUE
    /\ wasRunning' = FALSE
    /\ snap' = NoSnap
    /\ pcU' = "idle"
    /\ UNCHANGED <<A, config, wg, animateVars, nTaps, pix, pureVars>>

(* RestartButton: running = wasRunning; the callback returns *)
RestartResume ==
    /\ pcU = "resume"
    /\ running' = wasRunning
    /\ wasRunning' = FALSE
    /\ snap' = NoSnap
    /\ pcU' = "idle"
    /\ UNCHANGED <<A, config, wg, animateVars, nTaps, pix, pureVars>>

RestartButton ==
    \/ RestartStop \/ RestartWait \/ RestartNew \/ RestartInit \/ RestartResume

(* displayState(i, j, w, h) for i < width, j < height: amount := setup.A.At(i, j).
   pix keeps the amount and whether an Update was in flight at the read. *)
displayState ==
    /\ \E i \in 0..(width - 1), j \in 0..(height - 1) :
          pix' = [read |-> TRUE, amount |-> A.at[<<i, j>>], inflight |-> UpdateInFlight]
    /\ UNCHANGED <<A, config, running, wg, animateVars, uiVars, pureVars>>

Next ==
    \/ animate
    \/ StartButton \/ SliderR \/ SliderT \/ SliderMu \/ SliderSigma
    \/ RestartButton
    \/ displayState

Spec == Init /\ [][Next]_vars

\* the steps of the restart callback after its tap
RestartRun == RestartWait \/ RestartNew \/ RestartInit \/ RestartResume

\* the steps that read or write running and the WaitGroup: the animate
\* goroutine and the two buttons (the sliders and the raster touch neither)
RunNext == animate \/ StartButton \/ RestartButton

\* animate leaves the first step of Update (UpdateGrowth is the one step of
\* animate that takes pcA from "update" to "copy", and it is always possible there)
UpdateGrowthMoves == pcA = "update" /\ pcA' = "copy"

\* the animate goroutine is scheduled: a call it has started goes on to its end
AnimateFair ==
    /\ WF_vars(AnimateAdd) /\ WF_pcA(UpdateGrowthMoves) /\ WF_vars(UpdateAdd)
    /\ WF_vars(UpdateClip) /\ WF_vars(UpdatePublish) /\ WF_vars(AnimateDone)

\* the run of the animate goroutine and the buttons with both goroutines
\* scheduled: the animate goroutine goes on, and a restart callback that can go
\* on does
LiveSpec == Init /\ [][RunNext]_vars /\ AnimateFair /\ WF_vars(RestartRun)

-----------------------------------------------------------------------------
(* ComputeKernel and displayKernel (the -k window) over a range of radii and
   ring weights *)

KernelRs == {Fin(1, 2), Fin(1, 1), Fin(3, 2), Fin(2, 1), Fin(5, 2)}
KernelBetas == {<< >>, <<Zero>>, <<One>>, <<One, Fin(1, 2)>>}

\* the pixels of the raster are 0 .. MaxPixel in both directions
MaxPixel == 5

\* the configuration NewConfig has filled in when it calls ComputeKernel
KernelInit ==
    /\ \E r \in KernelRs, beta \in KernelBetas :
          /\ R = r /\ Beta = beta /\ Dx = FDiv(One, r)
    /\ \E t \in TFlags, mu \in MuFlags, sigma \in SigmaFlags :
          /\ T = t /\ Dt = FDiv(One, t) /\ Mu = mu /\ Sigma = sigma
    /\ A = NewDense(height, width)
    /\ Kernel = NoMat /\ KFFT = NoMat
    /\ running = TRUE /\ wg = 0
    /\ pcA = "tick" /\ pcU = "idle"
    /\ op = "new"
    /\ Idle

(* NewConfig: setup.ComputeKernel() *)
ComputeKernelCall ==
    /\ op = "new"
    /\ LET k == ComputeKernel(R, Dx, Beta, A.rows, A.cols)
       IN Kernel' = k.Kernel /\ KFFT' = k.KFFT
    /\ op' = "kernel"
    /\ UNCHANGED <<A, R, T, Mu, Sigma, Dx, Dt, Beta, running, wg, animateVars, uiVars,
                   pix, U1, U2>>

\* len := int(setup.R*2 + 1)
displayKernelLen == FloorInt(FAdd(FMul(R, Fin(2, 1)), One))

(* displayKernel(i, j, w, h): for i < len and j < len it reads
   setup.Kernel.At(i, j), which panics outside the matrix *)
displayKernel ==
    /\ op = "kernel"
    /\ \E i \in 0..MaxPixel, j \in 0..MaxPixel :
          pix' = IF i < displayKernelLen /\ j < displayKernelLen
                 THEN [read |-> TRUE, i |-> i, j |-> j,
                       panics |-> ~InBounds(Kernel, i, j)]
                 ELSE NoPix
    /\ UNCHANGED <<A, config, running, wg, animateVars, uiVars, pureVars>>

KernelNext == ComputeKernelCall \/ displayKernel

KernelSpec == KernelInit /\ [][KernelNext]_vars

-----------------------------------------------------------------------------
(* The two ways of Update to the potential, on one configuration *)

ConvRs == {Fin(1, 2), Fin(1, 1), Fin(3, 2)}
ConvBetas == {<<One>>, <<Fin(1, 2)>>, <<One, Fin(1, 2)>>}

ConvInit ==
    /\ \E r \in ConvRs, t \in TFlags, mu \in MuFlags, sigma \in SigmaFlags,
          beta \in ConvBetas :
          NewConfig(width, height, r, t, mu, sigma, beta)
    /\ running = TRUE /\ wg = 0
    /\ pcA = "tick" /\ pcU = "idle"
    /\ op = "conv"
    /\ Idle

(* Update, FFT approach: U = RealPart(IFFT(ComplexMulElem(c.KFFT, FFT(c.A)))) *)
SpectralPotential ==
    /\ op = "conv" /\ U1 = NoMat
    /\ U1' = Potential(A, KFFT)
    /\ UNCHANGED <<A, config, running, wg, animateVars, uiVars, pix, op, U2>>

(* Update, convolution approach: U = convolve(c.A, c.Kernel) *)
SpatialPotential ==
    /\ op = "conv" /\ U2 = NoMat
    /\ U2' = convolve(A, Kernel)
    /\ UNCHANGED <<A, config, running, wg, animateVars, uiVars, pix, op, U1>>

ConvNext == SpectralPotential \/ SpatialPotential

ConvSpec == ConvInit /\ [][ConvNext]_vars

-----------------------------------------------------------------------------
(* Update as one call, on a configuration whose Dt is 0 (flag -t +Inf) *)

(* Update: the grid it assigns to c.A *)
Update(a, kfft, mu, sigma, dt) ==
    ClipAll(Add(a, ScaledGrowth(a, kfft, mu, sigma, dt)))

StillTs == {PInf}
StillMus == {Fin(1, 4), Fin(1, 2)}
StillSigmas == {Fin(1, 8), Fin(1, 4)}

StillInit ==
    /\ \E r \in RFlags, t \in StillTs, mu \in StillMus, sigma \in StillSigmas,
          beta \in ConvBetas :
          NewConfig(width, height, r, t, mu, sigma, beta)
    /\ running = TRUE /\ wg = 0
    /\ pcA = "tick" /\ pcU = "idle"
    /\ op = "still"
    /\ Idle

(* setup.Update(); U1 keeps the grid the call started from *)
UpdateCall ==
    /\ op = "still" /\ nUpdates < MaxUpdates
    /\ U1' = A
    /\ A' = Update(A, KFFT, Mu, Sigma, Dt)
    /\ nUpdates' = nUpdates + 1
    /\ UNCHANGED <<config, running, wg, pcA, G, Acopy, uiVars, pix, op, U2>>

StillNext == UpdateCall

StillSpec == StillInit /\ [][StillNext]_vars

-----------------------------------------------------------------------------
(* ComplexMulElem, FFTShift and InitState on matrices of several sizes, square
   and not *)

\* var setup utils.Config before initParameters: every field is Go's zero value
Unconfigured ==
    /\ A = NoMat /\ Kernel = NoMat /\ KFFT = NoMat
    /\ R = Zero /\ T = Zero /\ Mu = Zero /\ Sigma = Zero /\ Dx = Zero /\ Dt = Zero
    /\ Beta = << >>
    /\ running = TRUE /\ wg = 0
    /\ pcA = "tick" /\ pcU = "idle"
    /\ G = NoMat /\ Acopy = NoMat /\ snap = NoSnap /\ pix = NoPix
    /\ nUpdates = 0 /\ nTaps = 0 /\ wasRunning = FALSE

MulDims == {<<1, 1>>, <<1, 2>>, <<2, 1>>, <<2, 2>>}
MulEntries == {[re |-> One, im |-> One], [re |-> Fin(2, 1), im |-> Zero]}

\* the r x c complex matrices with entries of MulEntries
CMats(r, c) == {Mat(r, c, f) : f \in [Cells(r, c) -> MulEntries]}

MulInit ==
    /\ Unconfigured
    /\ \E d \in MulDims : U1 \in CMats(d[1], d[2]) /\ U2 \in CMats(d[1], d[2])
    /\ op = "mul"

(* ComplexMulElem(m1, m2): pix keeps whether the call panics and what it
   returns *)
ComplexMulElemCall ==
    /\ op = "mul"
    /\ pix' = [read |-> TRUE,
               panics |-> ComplexMulElemPanics(U1, U2),
               out |-> IF ComplexMulElemPanics(U1, U2) THEN NoMat
                       ELSE ComplexMulElem(U1, U2)]
    /\ op' = "muldone"
    /\ UNCHANGED <<A, config, running, wg, animateVars, uiVars, U1, U2>>

MulNext == ComplexMulElemCall

MulSpec == MulInit /\ [][MulNext]_vars

ShiftSides == {3, 4, 5}
ShiftRs == {Fin(1, 2), Fin(1, 1), Fin(3, 2)}

\* ComputeKernel at its call of FFTShift(K, rows, cols): K is in Kernel, the
\* grid is rows x cols
ShiftInit ==
    /\ \E r \in ShiftRs, beta \in ConvBetas, h \in ShiftSides, w \in ShiftSides :
          /\ R = r /\ Beta = beta /\ Dx = FDiv(One, r)
          /\ Kernel = NormalisedKernel(r, FDiv(One, r), beta)
          /\ A = NewDense(h, w)
    /\ \E t \in TFlags, mu \in MuFlags, sigma \in SigmaFlags :
          /\ T = t /\ Dt = FDiv(One, t) /\ Mu = mu /\ Sigma = sigma
    /\ KFFT = NoMat
    /\ running = TRUE /\ wg = 0
    /\ pcA = "tick" /\ pcU = "idle"
    /\ op = "shift"
    /\ Idle

(* FFTShift(K, rows, cols): pix keeps whether the call panics and what it
   returns *)
FFTShiftCall ==
    /\ op = "shift"
    /\ pix' = [read |-> TRUE,
               panics |-> FFTShiftPanics(Kernel, A.rows, A.cols),
               out |-> IF FFTShiftPanics(Kernel, A.rows, A.cols) THEN NoMat
                       ELSE FFTShift(Kernel, A.rows, A.cols)]
    /\ op' = "shifted"
    /\ UNCHANGED <<A, config, running, wg, animateVars, uiVars, U1, U2>>

ShiftNext == FFTShiftCall

ShiftSpec == ShiftInit /\ [][ShiftNext]_vars

InitSides == {4, 6}

\* NewConfig at its call of setup.InitState(): c.A is the h x w zero matrix
SeedInit ==
    /\ \E r \in RFlags, t \in TFlags, mu \in MuFlags, sigma \in SigmaFlags,
          beta \in BetaFlags, h \in InitSides, w \in InitSides :
          /\ R = r /\ T = t /\ Mu = mu /\ Sigma = sigma /\ Beta = beta
          /\ Dx = FDiv(One, r) /\ Dt = FDiv(One, t)
          /\ A = NewDense(h, w)
    /\ Kernel = NoMat /\ KFFT = NoMat
    /\ running = TRUE /\ wg = 0
    /\ pcA = "tick" /\ pcU = "idle"
    /\ op = "seed"
    /\ Idle

(* setup.InitState(): it fills c.A, or one of its draws panics *)
InitStateCall ==
    /\ op = "seed"
    /\ \/ /\ A' \in InitState(A)
          /\ pix' = [read |-> TRUE, panics |-> FALSE]
       \/ /\ InitStatePanics(A)
          /\ A' = A
          /\ pix' = [read |-> TRUE, panics |-> TRUE]
    /\ op' = "seeded"
    /\ UNCHANGED <<config, running, wg, animateVars, uiVars, U1, U2>>

SeedNext == InitStateCall

SeedSpec == SeedInit /\ [][SeedNext]_vars

-----------------------------------------------------------------------------
(* Properties *)

\* C1: in every reachable state every cell of the grid A lies in [0, 1]
\* (checked under Spec: construction, Update, restart and slider writes).
C1_GridInUnitInterval ==
    \A p \in DOMAIN A.at : FGe(A.at[p], Zero) /\ FGe(One, A.at[p])

\* C2: for the same grid and kernel the potential of the spectral path equals,
\* at every cell, the potential of the spatial path convolve(A, Kernel)
\* (checked under ConvSpec, once both have been computed).
C2_SpectralEqualsSpatial ==
    (U1 # NoMat /\ U2 # NoMat) => \A p \in DOMAIN U1.at : U1.at[p] = U2.at[p]

\* C3: from the moment wg.Wait() has returned until running is restored, the
\* animate goroutine is not executing setup.Update() (checked under Spec).
C3_RestartExcludesUpdate ==
    pcU \in {"new", "init", "resume"} => ~UpdateInFlight

\* C4: a reader that runs while an Update is in flight never sees a partially
\* updated grid: the matrix reachable through setup.A holds no sum that is still
\* to be clipped, and no amount displayState has read during an Update is one
\* (checked under Spec).
C4_ReaderSeesWholeGrid ==
    /\ UpdateInFlight => A = ClipAll(A)
    /\ (pix.read /\ pix.inflight) => pix.amount = Clip(pix.amount, Zero, One)

\* C4, its case: displayState has read a cell during an Update, and that Update
\* now holds, in its private copy, a sum that is still to be clipped.
C4_Witness ==
    /\ pix.read /\ pix.inflight
    /\ pcA = "clip" /\ nUpdates = 0
    /\ Acopy # ClipAll(Acopy)

\* C5: whenever an Update begins (with a radius R > 0), Kernel and KFFT are the
\* ones ComputeKernel derives from the current R, Dx and Beta (checked under Spec).
C5_KernelFollowsRadius ==
    (pcA = "update" /\ FLt(Zero, R)) =>
        LET k == ComputeKernel(R, Dx, Beta, A.rows, A.cols)
        IN Kernel = k.Kernel /\ KFFT = k.KFFT

\* C6: for every R > 0 and every non-empty Beta with a positive weight, the
\* entries of the kernel ComputeKernel produces sum to 1 (checked under KernelSpec).
C6_KernelSumsToOne ==
    (op = "kernel" /\ FLt(Zero, R) /\ \E k \in DOMAIN Beta : FLt(Zero, Beta[k]))
        => Sum(Kernel) = One

\* C7: no invalid parameter value is ever installed: R > 0, T > 0, Sigma > 0 and
\* Beta non-empty in every reachable state, with Dx = 1/R and Dt = 1/T
\* (checked under Spec).
C7_ParametersStayValid ==
    /\ FLt(Zero, R) /\ FLt(Zero, T) /\ FLt(Zero, Sigma) /\ Len(Beta) > 0
    /\ Dx = FDiv(One, R) /\ Dt = FDiv(One, T)

\* C8: ComputeKernel installs no Kernel and no KFFT that holds a non-finite
\* value, whatever the ring-weighted sum is (checked under KernelSpec).
C8_NoNonFiniteKernel ==
    op = "kernel" => AllFinite(Kernel) /\ CAllFinite(KFFT)

\* C9: restart changes only the grid: from its tap to its return Kernel, KFFT,
\* R, T, Mu, Sigma, Dx, Dt and Beta are what they were at the tap
\* (checked under Spec).
C9_RestartKeepsParameters ==
    snap.set => snap.params = Params

\* C9, its case: a restart, tapped after a slider has moved R away from the
\* radius of the kernel, has replaced the grid and is about to return.
C9_Witness ==
    /\ snap.set /\ pcU = "resume"
    /\ A \in InitState(NewDense(width, height))
    /\ FLt(Zero, R) /\ Kernel # ComputeKernel(R, Dx, Beta, width, height).Kernel

\* C10: every read displayKernel makes at (i, j) with 0 <= i, j < int(2R+1) lies
\* inside the Kernel matrix (checked under KernelSpec).
C10_DisplayKernelInBounds ==
    (op = "kernel" /\ pix.read) => ~pix.panics

\* C11: if Dt = 0, Update leaves the grid unchanged: the grid after the call is
\* cell for cell the grid before it (checked under StillSpec, where Dt = 0).
C11_ZeroDtKeepsGrid ==
    (nUpdates > 0 /\ Dt = Zero) => \A p \in DOMAIN A.at : A.at[p] = U1.at[p]

\* C12: once restart has installed the fresh grid, no Update that read the grid
\* of before the restart writes its result into setup.A: an Update that is about
\* to add its growth while the restart is about to return has computed that
\* growth from the grid setup.A now holds (checked under Spec).
C12_NoStaleUpdateAfterRestart ==
    (pcU = "resume" /\ pcA = "copy") => G = ScaledGrowth(A, KFFT, Mu, Sigma, Dt)

\* C13: ComplexMulElem(m1, m2) reads inside both matrices and returns the matrix
\* of the products m1[i,j]*m2[i,j] at every (i, j), for square and non-square
\* matrices (checked under MulSpec).
C13_ComplexMulElemIsProduct ==
    op = "muldone" =>
        /\ ~pix.panics
        /\ \A p \in Cells(U1.rows, U1.cols) : pix.out.at[p] = CMul(U1.at[p], U2.at[p])

\* C14: FFTShift(K, H, W) stores K[R+i][R+j] at row i mod H and column j mod W
\* for every i, j of -R..R and 0 in every other cell, for every grid size
\* (checked under ShiftSpec, where no side of the grid is below the kernel's).
C14_FFTShiftEmbedsKernel ==
    op = "shifted" =>
        LET RR == (Kernel.rows - 1) \div 2
            H == A.rows
            W == A.cols
        IN /\ ~pix.panics
           /\ \A i \in (-RR)..RR, j \in (-RR)..RR :
                 pix.out.at[<<mod(i, H), mod(j, W)>>] = Kernel.at[<<RR + i, RR + j>>]
           /\ \A p \in Cells(H, W) :
                 (\A i \in (-RR)..RR, j \in (-RR)..RR : p # <<mod(i, H), mod(j, W)>>)
                     => pix.out.at[p] = Zero

\* C15: for every grid size and every outcome of its draws, InitState writes
\* inside the grid and draws over no empty range: no call of it panics
\* (checked under SeedSpec).
C15_InitStateStaysInside ==
    op = "seeded" => ~pix.panics

\* C16: at most one Update is in flight at any time: the WaitGroup counter is 1
\* from wg.Add(1) to wg.Done() and 0 otherwise, and when an Update begins the
\* one before it has installed its grid and holds nothing more (checked under
\* Spec).
C16_OneUpdateInFlight ==
    /\ wg = (IF pcA \in {"update", "copy", "clip", "publish", "done"} THEN 1 ELSE 0)
    /\ pcA \in {"tick", "add", "update"} => (G = NoMat /\ Acopy = NoMat)

\* C16, its case: a second Update begins after the first has installed its grid.
C16_Witness ==
    nUpdates >= 1 /\ pcA = "update" /\ wg = 1

\* C17: while running is false no new Update begins: every step in which animate
\* enters setup.Update() is taken with running true (checked under Spec).
C17_NoUpdateBeginsWhileStopped ==
    [][(pcA = "add" /\ pcA' = "update") => running]_vars

\* C18: when the restart callback returns, running has the value it had when the
\* callback started (checked under Spec).
C18_RestartKeepsRunning ==
    [][(pcU = "resume" /\ pcU' = "idle") => running' = snap.running]_vars

\* C18, its case: a restart tapped on a stopped simulation is about to return,
\* and animate has made a step of its own since the program started.
C18_Witness ==
    snap.set /\ pcU = "resume" /\ ~snap.running /\ nUpdates >= 1

\* C19: every restart eventually completes: a restart that has been tapped
\* returns, with running restored (checked under LiveSpec, where both
\* goroutines are scheduled fairly).
C19_RestartCompletes ==
    (pcU = "wait") ~> (pcU = "idle")

\* C19, its case: the restart is waiting in wg.Wait() while an Update is in
\* flight.
C19_Witness ==
    pcU = "wait" /\ wg = 1 /\ UpdateInFlight

=============================================================================
